---- MODULE Spec2Model ----
(***************************************************************************)
(* Model of 3-verification/snapshot-compare.py: the section comparators,   *)
(* the aggregation (generate_json_output, print_summary) and main().       *)
(*                                                                         *)
(* A snapshot document is a Python dict parsed from JSON.  It is modelled  *)
(* as a TLA+ function whose DOMAIN is the set of keys that are present, so *)
(* that dict.get(key, default) is Get(d, key, default).  JSON lists are    *)
(* sequences.  Python None, where it is compared or formatted, is the      *)
(* string "None".                                                          *)
(***************************************************************************)
EXTENDS Integers, Sequences, FiniteSets, TLC

VARIABLES
    argv,        \* command line: [auto_latest, npos, json]
    dir,         \* SNAPSHOT_DIR: [has_pre, has_post] (latest files found by glob)
    pre_file,    \* [state: "ok" | "oserror" | "badjson", doc]
    post_file,   \* same, for the post-reboot file
    order,       \* the order in which the fourteen pair comparators are invoked
    hash_seed,   \* per-process string hash seed: fixes set iteration order
    focus,       \* "main" for a run of main(); a section name for a direct call
    pc,          \* position in main(), or "call" / "returned" for a direct call
    pre,         \* load_snapshot(pre_file):  [loaded, doc]
    post,        \* load_snapshot(post_file): [loaded, doc]
    results,     \* list[ComparisonResult]
    stdout,      \* what reached the real stdout, as a sequence of tags
    stderr,      \* error messages
    report,      \* <<>> or <<the dict of generate_json_output>>
    summary,     \* <<>> or <<what print_summary displayed>>
    total_problems, \* main's local, -1 while unset
    exit_code    \* -1 while running, else the process exit status

vars == <<argv, dir, pre_file, post_file, order, hash_seed, focus, pc, pre, post,
          results, stdout, stderr, report, summary, total_problems, exit_code>>

-----------------------------------------------------------------------------
(* Python dicts, lists and sets *)

EmptyDict == [k \in {} |-> k]

Get(d, k, default) == IF k \in DOMAIN d THEN d[k] ELSE default

With(d, k, v) == [j \in DOMAIN d \cup {k} |-> IF j = k THEN v ELSE d[j]]

Without(d, k) == [j \in DOMAIN d \ {k} |-> d[j]]

None == "None"

ToSet(list) == {list[i] : i \in DOMAIN list}

B2N(b) == IF b THEN 1 ELSE 0

RECURSIVE Concat(_)
Concat(seqs) == IF seqs = <<>> THEN <<>> ELSE Head(seqs) \o Concat(Tail(seqs))

(* Code point order of the characters used in the model's strings. *)
CharOrder == <<" ", "-", "0", "1", "3", "5", "6", "8", "H", "L", "R", "T",
               "a", "b", "c", "k", "m", "n", "o", "u", "w", "x">>

CharRank(c) == CHOOSE i \in DOMAIN CharOrder : CharOrder[i] = c

(* str < str for strings held as sequences of characters *)
RECURSIVE LexLess(_, _)
LexLess(a, b) ==
    IF a = <<>> THEN b # <<>>
    ELSE IF b = <<>> THEN FALSE
    ELSE IF Head(a) = Head(b) THEN LexLess(Tail(a), Tail(b))
    ELSE CharRank(Head(a)) < CharRank(Head(b))

(* Code point order of the atomic names (services, containers, connections, *)
(* cron jobs) used in the model.                                            *)
NameOrder == <<"A", "B", "C", "D", "backup", "db", "eth0", "lte", "rotate",
               "web", "wlan0", "\\u25cf">>

Bullet == "\\u25cf"

NameRank(s) == CHOOSE i \in DOMAIN NameOrder : NameOrder[i] = s

(* sorted(S) for a set of names *)
RECURSIVE sorted(_)
sorted(S) ==
    IF S = {} THEN <<>>
    ELSE LET m == CHOOSE x \in S : \A y \in S \ {x} : NameRank(x) < NameRank(y)
         IN  <<m>> \o sorted(S \ {m})

(* sorted(S) for a set of strings held as character sequences *)
RECURSIVE sorted_str(_)
sorted_str(S) ==
    IF S = {} THEN <<>>
    ELSE LET m == CHOOSE x \in S : \A y \in S \ {x} : LexLess(x, y)
         IN  <<m>> \o sorted_str(S \ {m})

RECURSIVE Reverse(_)
Reverse(s) == IF s = <<>> THEN <<>> ELSE Reverse(Tail(s)) \o <<Head(s)>>

(* Iteration order of a set of strings: fixed within a process by the hash  *)
(* seed, unspecified across processes.                                      *)
SetIter(S, seed) == IF seed = 0 THEN sorted_str(S) ELSE Reverse(sorted_str(S))

(* needle in haystack, for str *)
IsSubstring(needle, hay) ==
    \E i \in 0..(Len(hay) - Len(needle)) : SubSeq(hay, i + 1, i + Len(needle)) = needle

(* {key(x): val(x) for x in list if key(x)}: keys in first-insertion order,  *)
(* the value of the last occurrence.                                        *)
RECURSIVE DictKeys(_, _)
DictKeys(list, keyField) ==
    IF list = <<>> THEN <<>>
    ELSE LET rest == DictKeys(SubSeq(list, 1, Len(list) - 1), keyField)
             last == list[Len(list)]
         IN  IF keyField \notin DOMAIN last \/ last[keyField] \in ToSet(rest)
             THEN rest
             ELSE Append(rest, last[keyField])

DictLast(list, keyField, name) ==
    LET idx == {i \in DOMAIN list : keyField \in DOMAIN list[i] /\ list[i][keyField] = name}
    IN  list[CHOOSE i \in idx : \A j \in idx : j <= i]

(* dict held as a list of <<key, value>> items with distinct keys (JSON     *)
(* object whose iteration order matters)                                    *)
ItemKeys(items) == [i \in DOMAIN items |-> items[i][1]]

ItemGet(items, k, default) ==
    IF \E i \in DOMAIN items : items[i][1] = k
    THEN items[CHOOSE i \in DOMAIN items : items[i][1] = k][2]
    ELSE default

-----------------------------------------------------------------------------
(* ComparisonResult *)

ComparisonResult(section, problems, warnings, changes) ==
    [section |-> section, problems |-> problems, warnings |-> warnings,
     changes |-> changes]

-----------------------------------------------------------------------------
(* compare_system *)

DiskCritical_nonstrict(post_disk) == post_disk >= 90

DiskCritical(post_disk) == post_disk > 90

DiskIncreased_nonstrict(pre_disk, post_disk) == post_disk + 10 >= pre_disk + 10

DiskIncreased(pre_disk, post_disk) == post_disk > pre_disk + 10

(* system.cpu_temp, falling back to custom.cpu_temp_celsius when it is 0 *)
PostTemp(post_doc) ==
    LET t == Get(Get(post_doc, "system", EmptyDict), "cpu_temp", 0)
    IN  IF t = 0
        THEN Get(Get(post_doc, "custom", EmptyDict), "cpu_temp_celsius", 0)
        ELSE t

TempHigh(post_temp) == post_temp > 80

compare_system(pre_doc, post_doc) ==
    LET pre_sys   == Get(pre_doc, "system", EmptyDict)
        post_sys  == Get(post_doc, "system", EmptyDict)
        pre_k     == Get(pre_sys, "kernel", None)
        post_k    == Get(post_sys, "kernel", None)
        pre_disk  == Get(pre_sys, "disk_usage_percent", 0)
        post_disk == Get(post_sys, "disk_usage_percent", 0)
        post_temp == PostTemp(post_doc)
        crit      == DiskCritical(post_disk)
        incr      == ~crit /\ DiskIncreased(pre_disk, post_disk)
        hot       == TempHigh(post_temp)
        changes   ==
            (IF pre_k # post_k THEN << <<"Kernel changed", pre_k, post_k>> >> ELSE <<>>)
            \o (IF crit THEN << <<"Disk space critical", post_disk>> >>
                ELSE IF incr
                     THEN << <<"Disk usage increased significantly", pre_disk, post_disk>> >>
                     ELSE <<>>)
            \o (IF hot THEN << <<"CPU temperature high", post_temp>> >> ELSE <<>>)
    IN  ComparisonResult("system", B2N(crit), B2N(incr) + B2N(hot), changes)

-----------------------------------------------------------------------------
(* compare_services *)

FailedSet_keepBullet(doc) == ToSet(Get(Get(doc, "services", EmptyDict), "failed", <<>>))

(* set(...get("failed", [])) followed by discard of the bullet artifact *)
FailedSet(doc) == ToSet(Get(Get(doc, "services", EmptyDict), "failed", <<>>)) \ {Bullet}

RunningSet(doc) == ToSet(Get(Get(doc, "services", EmptyDict), "running", <<>>))

Tagged(tag, seq) == [i \in DOMAIN seq |-> <<tag, seq[i]>>]

compare_services(pre_doc, post_doc) ==
    LET stopped      == RunningSet(pre_doc) \ RunningSet(post_doc)
        started      == RunningSet(post_doc) \ RunningSet(pre_doc)
        new_failures == FailedSet(post_doc) \ FailedSet(pre_doc)
        changes      == Tagged("stopped", sorted(stopped))
                        \o Tagged("started", sorted(started))
                        \o Tagged("failed", sorted(new_failures))
    IN  ComparisonResult("services",
                         Cardinality(stopped) + Cardinality(new_failures), 0, changes)

-----------------------------------------------------------------------------
(* compare_docker *)

ContainerNames(containers) == DictKeys(containers, "name")

ContainerState(containers, name) == Get(DictLast(containers, "name", name), "state", None)

(* a container present before the reboot is a problem when ... *)
ContainerProblem(name, pre_cs, post_cs) ==
    IF name \notin ToSet(ContainerNames(post_cs))
    THEN << <<"Missing after reboot", name>> >>
    ELSE IF ContainerState(pre_cs, name) = "running"
            /\ ContainerState(post_cs, name) # "running"
         THEN << <<"Was, now", name, ContainerState(pre_cs, name),
                   ContainerState(post_cs, name)>> >>
         ELSE <<>>

compare_docker(pre_doc, post_doc) ==
    LET pre_cs   == Get(Get(pre_doc, "docker", EmptyDict), "containers", <<>>)
        post_cs  == Get(Get(post_doc, "docker", EmptyDict), "containers", <<>>)
        names    == ContainerNames(pre_cs)
        probs    == Concat([i \in DOMAIN names |-> ContainerProblem(names[i], pre_cs, post_cs)])
        new_containers == ToSet(ContainerNames(post_cs)) \ ToSet(names)
    IN  IF pre_cs = <<>> /\ post_cs = <<>>
        THEN ComparisonResult("docker", 0, 0, <<>>)
        ELSE ComparisonResult("docker", Len(probs), 0,
                              probs \o Tagged("new", sorted(new_containers)))

-----------------------------------------------------------------------------
(* compare_network_interfaces *)

Inet4_allFamilies(iface) ==
    LET addr_info == Get(iface, "addr_info", <<>>)
    IN  {Get(addr_info[i], "local", None) : i \in DOMAIN addr_info}

Inet4(iface) ==
    LET addr_info == Get(iface, "addr_info", <<>>)
    IN  {Get(addr_info[i], "local", None) :
            i \in {j \in DOMAIN addr_info : Get(addr_info[j], "family", None) = "inet"}}

(* the findings of one interface of the pre document, as <<severity, msg>> *)
InterfaceFindings(ifname, pre_list, post_list) ==
    IF ifname \notin ToSet(DictKeys(post_list, "ifname"))
    THEN << <<"problem", <<"Interface missing after reboot", ifname>> >> >>
    ELSE LET pre_data   == DictLast(pre_list, "ifname", ifname)
             post_data  == DictLast(post_list, "ifname", ifname)
             pre_state  == Get(pre_data, "operstate", "UNKNOWN")
             post_state == Get(post_data, "operstate", "UNKNOWN")
             pre_mac    == Get(pre_data, "address", "")
             post_mac   == Get(post_data, "address", "")
         IN  (IF pre_state # post_state
              THEN << <<"warning", <<"State changed", ifname, pre_state, post_state>> >> >>
              ELSE <<>>)
             \o (IF Inet4(pre_data) # Inet4(post_data)
                 THEN << <<"warning", <<"IP changed", ifname, Inet4(pre_data), Inet4(post_data)>> >> >>
                 ELSE <<>>)
             \o (IF pre_mac # post_mac
                 THEN << <<"problem", <<"MAC changed", ifname, pre_mac, post_mac>> >> >>
                 ELSE <<>>)

CountOf(severity, findings) ==
    Cardinality({i \in DOMAIN findings : findings[i][1] = severity})

Messages(findings) == [i \in DOMAIN findings |-> findings[i][2]]

compare_network_interfaces(pre_doc, post_doc) ==
    LET pre_net   == Get(pre_doc, "network", EmptyDict)
        post_net  == Get(post_doc, "network", EmptyDict)
        pre_list  == Get(pre_net, "interfaces", <<>>)
        post_list == Get(post_net, "interfaces", <<>>)
        names     == DictKeys(pre_list, "ifname")
        pre_gw    == Get(pre_net, "default_gateway", "none")
        post_gw   == Get(post_net, "default_gateway", "none")
        findings  ==
            Concat([i \in DOMAIN names |-> InterfaceFindings(names[i], pre_list, post_list)])
            \o (IF pre_gw # post_gw
                THEN << <<"warning", <<"Default route changed">> >> >>
                ELSE <<>>)
    IN  ComparisonResult("network", CountOf("problem", findings),
                         CountOf("warning", findings), Messages(findings))

-----------------------------------------------------------------------------
(* compare_usb_devices: descriptors are strings, held as character sequences *)

RTL8153 == <<"R", "T", "L", "8", "1", "5", "3">>

RTL8156 == <<"R", "T", "L", "8", "1", "5", "6">>

IsNetworkAdapter_only8153(d) == IsSubstring(RTL8153, d)

IsNetworkAdapter(d) == IsSubstring(RTL8153, d) \/ IsSubstring(RTL8156, d)

compare_usb_devices(pre_doc, post_doc, seed) ==
    LET pre_devices  == ToSet(Get(pre_doc, "usb_devices", <<>>))
        post_devices == ToSet(Get(post_doc, "usb_devices", <<>>))
        removed      == pre_devices \ post_devices
        added        == post_devices \ pre_devices
        critical_missing     == SelectSeq(SetIter(removed, seed), IsNetworkAdapter)
        non_critical_removed == removed \ ToSet(critical_missing)
        changes == Tagged("missing", critical_missing)
                   \o Tagged("removed", sorted_str(non_critical_removed))
                   \o Tagged("added", sorted_str(added))
    IN  ComparisonResult("usb_devices", Len(critical_missing),
                         Cardinality(non_critical_removed), changes)

-----------------------------------------------------------------------------
(* compare_route_guardian *)

(* pre.get(flag) and not post.get(flag): a missing flag is None, falsy *)
WentAway(pre_d, post_d, flag) == Get(pre_d, flag, FALSE) /\ ~Get(post_d, flag, FALSE)

compare_route_guardian(pre_doc, post_doc) ==
    LET pre_rg  == Get(pre_doc, "route_guardian", EmptyDict)
        post_rg == Get(post_doc, "route_guardian", EmptyDict)
        pre_gw  == Get(pre_rg, "active_gateway", "unknown")
        post_gw == Get(post_rg, "active_gateway", "unknown")
        findings ==
            (IF WentAway(pre_rg, post_rg, "service_active")
             THEN << <<"problem", <<"Route Guardian service not active after reboot">> >> >>
             ELSE <<>>)
            \o (IF pre_gw # post_gw
                THEN << <<"warning", <<"Active gateway changed", pre_gw, post_gw>> >> >>
                ELSE <<>>)
            \o (IF WentAway(pre_rg, post_rg, "dsl_route_present")
                THEN << <<"problem", <<"DSL route missing after reboot">> >> >>
                ELSE <<>>)
            \o (IF WentAway(pre_rg, post_rg, "lte_route_present")
                THEN << <<"warning", <<"LTE route missing after reboot">> >> >>
                ELSE <<>>)
    IN  IF pre_rg = EmptyDict /\ post_rg = EmptyDict
        THEN ComparisonResult("route_guardian", 0, 0, <<>>)
        ELSE ComparisonResult("route_guardian", CountOf("problem", findings),
                              CountOf("warning", findings), Messages(findings))

-----------------------------------------------------------------------------
(* compare_pi_zero_fleet *)

FleetDevices == <<"watchdog", "security", "dns_gateway", "gpio_bedroom", "gpio_bathroom">>

FleetFinding(device, pre_fleet, post_fleet) ==
    LET pre_data       == Get(pre_fleet, device, EmptyDict)
        post_data      == Get(post_fleet, device, EmptyDict)
        pre_reachable  == Get(pre_data, "reachable", FALSE)
        post_reachable == Get(post_data, "reachable", FALSE)
        ip             == Get(post_data, "ip", "unknown")
    IN  IF pre_reachable /\ ~post_reachable
        THEN << <<"warning", <<"Unreachable after reboot", device, ip>> >> >>
        ELSE IF ~pre_reachable /\ post_reachable
             THEN << <<"info", <<"Now reachable", device, ip>> >> >>
             ELSE <<>>

compare_pi_zero_fleet(pre_doc, post_doc) ==
    LET pre_fleet  == Get(pre_doc, "pi_zero_fleet", EmptyDict)
        post_fleet == Get(post_doc, "pi_zero_fleet", EmptyDict)
        findings   == Concat([i \in DOMAIN FleetDevices |->
                                 FleetFinding(FleetDevices[i], pre_fleet, post_fleet)])
    IN  IF pre_fleet = EmptyDict /\ post_fleet = EmptyDict
        THEN ComparisonResult("pi_zero_fleet", 0, 0, <<>>)
        ELSE ComparisonResult("pi_zero_fleet", 0, CountOf("warning", findings),
                              Messages(findings))

-----------------------------------------------------------------------------
(* compare_networkmanager *)

ActiveConnections(doc) ==
    ToSet(DictKeys(Get(Get(doc, "networkmanager", EmptyDict), "active_connections", <<>>),
                   "name"))

compare_networkmanager(pre_doc, post_doc) ==
    LET deactivated == ActiveConnections(pre_doc) \ ActiveConnections(post_doc)
        activated   == ActiveConnections(post_doc) \ ActiveConnections(pre_doc)
    IN  ComparisonResult("networkmanager", 0, Cardinality(deactivated),
                         Tagged("deactivated", sorted(deactivated))
                         \o Tagged("activated", sorted(activated)))

-----------------------------------------------------------------------------
(* compare_wireguard *)

compare_wireguard(pre_doc, post_doc) ==
    LET pre_wg     == Get(pre_doc, "wireguard", EmptyDict)
        post_wg    == Get(post_doc, "wireguard", EmptyDict)
        pre_peers  == Get(pre_wg, "peers_count", 0)
        post_peers == Get(post_wg, "peers_count", 0)
        down       == WentAway(pre_wg, post_wg, "interface_active")
        peers      == pre_peers # post_peers
    IN  IF ~Get(pre_wg, "interface_active", FALSE) /\ ~Get(post_wg, "interface_active", FALSE)
        THEN ComparisonResult("wireguard", 0, 0, <<>>)
        ELSE ComparisonResult("wireguard", B2N(down), B2N(peers),
                 (IF down THEN << <<"WireGuard interface not active after reboot">> >> ELSE <<>>)
                 \o (IF peers THEN << <<"Peer count changed", pre_peers, post_peers>> >>
                     ELSE <<>>))

-----------------------------------------------------------------------------
(* compare_hardware_throttling *)

ThrottleFlags == <<"under_voltage", "currently_throttled", "soft_temp_limit">>

ThrottleMessage(flag) ==
    CASE flag = "under_voltage"       -> <<"Under-voltage detected">>
      [] flag = "currently_throttled" -> <<"CPU throttling active">>
      [] flag = "soft_temp_limit"     -> <<"Soft temperature limit reached">>

compare_hardware_throttling(pre_doc, post_doc) ==
    LET pre_te  == Get(Get(pre_doc, "hardware", EmptyDict), "throttle_events", EmptyDict)
        post_te == Get(Get(post_doc, "hardware", EmptyDict), "throttle_events", EmptyDict)
        raised  == SelectSeq(ThrottleFlags, LAMBDA f : Get(post_te, f, FALSE))
    IN  IF pre_te = EmptyDict /\ post_te = EmptyDict
        THEN ComparisonResult("hardware_throttling", 0, 0, <<>>)
        ELSE ComparisonResult("hardware_throttling", 0, Len(raised),
                              [i \in DOMAIN raised |-> ThrottleMessage(raised[i])])

-----------------------------------------------------------------------------
(* compare_critical_services: the two maps are held as item lists, since    *)
(* the loop follows the key order of the post document                      *)

NotActive(post_data) == Get(post_data, "active", None) # "active"

RestartIncreased_nonstrict(pre_restarts, post_restarts) == post_restarts >= pre_restarts

RestartIncreased(pre_restarts, post_restarts) == post_restarts > pre_restarts

CriticalFindings(item, pre_crit) ==
    LET service       == item[1]
        post_data     == item[2]
        pre_data      == ItemGet(pre_crit, service, EmptyDict)
        pre_restarts  == Get(pre_data, "restarts", 0)
        post_restarts == Get(post_data, "restarts", 0)
    IN  (IF NotActive(post_data)
         THEN << <<"problem", <<"Not active", service, Get(post_data, "active", None)>> >> >>
         ELSE <<>>)
        \o (IF RestartIncreased(pre_restarts, post_restarts)
            THEN << <<"warning", <<"Restarted", service, post_restarts - pre_restarts>> >> >>
            ELSE <<>>)

compare_critical_services(pre_doc, post_doc) ==
    LET pre_crit  == Get(pre_doc, "critical_services", <<>>)
        post_crit == Get(post_doc, "critical_services", <<>>)
        findings  == Concat([i \in DOMAIN post_crit |-> CriticalFindings(post_crit[i], pre_crit)])
    IN  IF pre_crit = <<>> /\ post_crit = <<>>
        THEN ComparisonResult("critical_services", 0, 0, <<>>)
        ELSE ComparisonResult("critical_services", CountOf("problem", findings),
                              CountOf("warning", findings), Messages(findings))

-----------------------------------------------------------------------------
(* compare_config_checksums: item lists, the loop follows the pre document  *)

ChecksumChanged(config_file, pre_hash, post_checksums) ==
    pre_hash # ItemGet(post_checksums, config_file, "missing")

compare_config_checksums(pre_doc, post_doc) ==
    LET pre_checksums  == Get(pre_doc, "config_checksums", <<>>)
        post_checksums == Get(post_doc, "config_checksums", <<>>)
        changed == SelectSeq(pre_checksums,
                             LAMBDA it : ChecksumChanged(it[1], it[2], post_checksums))
    IN  ComparisonResult("config_checksums", 0, Len(changed),
                         [i \in DOMAIN changed |-> <<"Checksum changed", changed[i][1]>>])

-----------------------------------------------------------------------------
(* compare_memory_detail *)

SwapHigh(post_swap_usage) == post_swap_usage > 50

compare_memory_detail_silent(pre_doc, post_doc) ==
    LET post_swap_usage == Get(Get(post_doc, "memory_detail", EmptyDict), "swap_usage_percent", 0)
    IN  ComparisonResult("memory_detail", 0, B2N(SwapHigh(post_swap_usage)), <<>>)

compare_memory_detail(pre_doc, post_doc) ==
    LET post_mem        == Get(post_doc, "memory_detail", EmptyDict)
        post_swap_usage == Get(post_mem, "swap_usage_percent", 0)
    IN  IF SwapHigh(post_swap_usage)
        THEN ComparisonResult("memory_detail", 0, 1, << <<"Swap usage high", post_swap_usage>> >>)
        ELSE ComparisonResult("memory_detail", 0, 0, <<>>)

-----------------------------------------------------------------------------
(* compare_cron_jobs *)

compare_cron_jobs(pre_doc, post_doc) ==
    LET pre_cron  == ToSet(Get(pre_doc, "cron_jobs", <<>>))
        post_cron == ToSet(Get(post_doc, "cron_jobs", <<>>))
        removed   == pre_cron \ post_cron
        added     == post_cron \ pre_cron
    IN  ComparisonResult("cron_jobs", 0, Cardinality(removed),
                         Tagged("removed", sorted(removed)) \o Tagged("added", sorted(added)))

-----------------------------------------------------------------------------
(* validate_boot_info                                                       *)
(*                                                                          *)
(* boot_duration_seconds is an arbitrary JSON value, held with its type:    *)
(*   JInt(n)      a JSON integer                                            *)
(*   JFloat(n)    a JSON number with a fraction, n tenths                   *)
(*   JStr(chars)  a JSON string                                             *)
(*   JNull, JList null, and a JSON array                                    *)

JInt(n) == [t |-> "int", n |-> n, s |-> <<>>]

JFloat(tenths) == [t |-> "float", n |-> tenths, s |-> <<>>]

JStr(chars) == [t |-> "str", n |-> 0, s |-> chars]

JNull == [t |-> "null", n |-> 0, s |-> <<>>]

JList == [t |-> "list", n |-> 0, s |-> <<>>]

Unknown == JStr(<<"u", "n", "k", "n", "o", "w", "n">>)

(* duration == "unknown" *)
IsUnknown(duration) == duration = Unknown

Digits == <<"0", "1", "2", "3", "4", "5", "6", "7", "8", "9">>

IsDigit(c) == c \in ToSet(Digits)

DigitVal(c) == (CHOOSE i \in DOMAIN Digits : Digits[i] = c) - 1

RECURSIVE Strip(_)
Strip(s) ==
    IF s = <<>> THEN s
    ELSE IF Head(s) = " " THEN Strip(Tail(s))
    ELSE IF s[Len(s)] = " " THEN Strip(SubSeq(s, 1, Len(s) - 1))
    ELSE s

RECURSIVE DecimalValue(_)
DecimalValue(ds) ==
    IF ds = <<>> THEN 0
    ELSE 10 * DecimalValue(SubSeq(ds, 1, Len(ds) - 1)) + DigitVal(ds[Len(ds)])

(* int(str): surrounding blanks, an optional sign, then decimal digits;     *)
(* anything else is a ValueError                                            *)
ParseInt(s) ==
    LET body   == Strip(s)
        signed == body # <<>> /\ Head(body) \in {"-", "+"}
        ds     == IF signed THEN Tail(body) ELSE body
        valid  == ds # <<>> /\ \A i \in DOMAIN ds : IsDigit(ds[i])
    IN  IF ~valid THEN [ok |-> FALSE, v |-> 0]
        ELSE [ok |-> TRUE,
              v  |-> IF signed /\ Head(body) = "-" THEN -DecimalValue(ds) ELSE DecimalValue(ds)]

(* int(float) truncates toward zero *)
Trunc(tenths) == IF tenths >= 0 THEN tenths \div 10 ELSE -((-tenths) \div 10)

(* int(duration): "value", or the exception it raises *)
IntOf(duration) ==
    CASE duration.t = "int"   -> [outcome |-> "value", v |-> duration.n]
      [] duration.t = "float" -> [outcome |-> "value", v |-> Trunc(duration.n)]
      [] duration.t = "str"   ->
            IF ParseInt(duration.s).ok
            THEN [outcome |-> "value", v |-> ParseInt(duration.s).v]
            ELSE [outcome |-> "ValueError", v |-> 0]
      [] OTHER                -> [outcome |-> "TypeError", v |-> 0]

BootIncomplete(phases) == phases < 13

BootSlow(duration_int) == duration_int > 300

(* the handlers of the try statement around int(duration) *)
Caught(exception) == exception = "ValueError"

BootSkipped(post_doc) ==
    \/ "boot_info" \notin DOMAIN post_doc
    \/ ~Get(post_doc["boot_info"], "available", TRUE)

BootDuration(post_doc) == Get(post_doc["boot_info"], "boot_duration_seconds", Unknown)

(* TRUE when validate_boot_info ends in an uncaught exception *)
validate_boot_info_raises(post_doc) ==
    /\ ~BootSkipped(post_doc)
    /\ ~IsUnknown(BootDuration(post_doc))
    /\ IntOf(BootDuration(post_doc)).outcome # "value"
    /\ ~Caught(IntOf(BootDuration(post_doc)).outcome)

(* the ComparisonResult it returns otherwise *)
validate_boot_info(post_doc) ==
    IF BootSkipped(post_doc)
    THEN ComparisonResult("boot_info", 0, 0, <<>>)
    ELSE LET boot_info  == post_doc["boot_info"]
             phases     == Get(boot_info, "phases_completed", 0)
             duration   == BootDuration(post_doc)
             incomplete == BootIncomplete(phases)
             converted  == IntOf(duration)
             slow       == /\ ~IsUnknown(duration)
                           /\ converted.outcome = "value"
                           /\ BootSlow(converted.v)
         IN  ComparisonResult("boot_info", B2N(incomplete), B2N(slow),
                 (IF incomplete THEN << <<"Incomplete boot", phases>> >> ELSE <<>>)
                 \o (IF slow
                     THEN << <<"Boot duration long", converted.v, converted.v \div 60>> >>
                     ELSE <<>>))

-----------------------------------------------------------------------------
(* Aggregation: generate_json_output, print_summary, the exit status        *)

SumProblems_count(rs) == Cardinality({i \in DOMAIN rs : rs[i].problems > 0})

RECURSIVE SumProblems(_)
SumProblems(rs) == IF rs = <<>> THEN 0 ELSE Head(rs).problems + SumProblems(Tail(rs))

RECURSIVE SumWarnings(_)
SumWarnings(rs) == IF rs = <<>> THEN 0 ELSE Head(rs).warnings + SumWarnings(Tail(rs))

Success(rs) == SumProblems(rs) = 0

generate_json_output(rs, pre_doc, post_doc) ==
    [pre_reboot_time  |-> Get(pre_doc, "timestamp", "unknown"),
     post_reboot_time |-> Get(post_doc, "timestamp", "unknown"),
     total_problems   |-> SumProblems(rs),
     total_warnings   |-> SumWarnings(rs),
     sections         |-> rs,
     success          |-> Success(rs)]

IsCritical(r) == r.problems > 0

IsWarning_any(r) == r.warnings > 0

IsWarning(r) == r.warnings > 0 /\ r.problems = 0

IsInfo(r) == Len(r.changes) > 0 /\ r.problems = 0 /\ r.warnings = 0

FirstThree(changes) == SubSeq(changes, 1, IF Len(changes) < 3 THEN Len(changes) ELSE 3)

Verdict(rs) ==
    IF SumProblems(rs) = 0 /\ SumWarnings(rs) = 0 THEN <<"recovered">>
    ELSE IF SumProblems(rs) = 0 THEN <<"recovered with warnings", SumWarnings(rs)>>
    ELSE <<"critical", SumProblems(rs), SumWarnings(rs)>>

CriticalList_reversed(rs) == Reverse(SelectSeq(rs, IsCritical))

(* critical = [r for r in results if r.problems > 0] *)
CriticalList(rs) == SelectSeq(rs, IsCritical)

(* what print_summary displays: the three lists and the verdict line *)
print_summary(rs, pre_doc, post_doc) ==
    LET crit == CriticalList(rs)
        warn == SelectSeq(rs, IsWarning)
        inf  == SelectSeq(rs, IsInfo)
    IN  [pre_reboot  |-> Get(pre_doc, "timestamp", "unknown"),
         post_reboot |-> Get(post_doc, "timestamp", "unknown"),
         critical |-> [i \in DOMAIN crit |->
                          [section |-> crit[i].section, count |-> crit[i].problems,
                           shown |-> FirstThree(crit[i].changes)]],
         warnings |-> [i \in DOMAIN warn |->
                          [section |-> warn[i].section, count |-> warn[i].warnings]],
         info     |-> [i \in DOMAIN inf |->
                          [section |-> inf[i].section, count |-> Len(inf[i].changes)]],
         verdict  |-> Verdict(rs)]

ExitStatus(total) == IF total = 0 THEN 0 ELSE 1

(* the status main returns when a snapshot could not be loaded *)
LoadFailureStatus == 1

(* the status main returns when the snapshots are not found or the          *)
(* arguments are incomplete                                                 *)
UsageStatus == 2

-----------------------------------------------------------------------------
(* main: the comparators in the order of the source, and their dispatch     *)

SourceOrder == <<"system", "services", "docker", "network", "usb_devices",
                 "route_guardian", "pi_zero_fleet", "networkmanager", "wireguard",
                 "hardware_throttling", "critical_services", "config_checksums",
                 "memory_detail", "cron_jobs">>

Sections == ToSet(SourceOrder)

Compare(section, pre_doc, post_doc, seed) ==
    CASE section = "system"              -> compare_system(pre_doc, post_doc)
      [] section = "services"            -> compare_services(pre_doc, post_doc)
      [] section = "docker"              -> compare_docker(pre_doc, post_doc)
      [] section = "network"             -> compare_network_interfaces(pre_doc, post_doc)
      [] section = "usb_devices"         -> compare_usb_devices(pre_doc, post_doc, seed)
      [] section = "route_guardian"      -> compare_route_guardian(pre_doc, post_doc)
      [] section = "pi_zero_fleet"       -> compare_pi_zero_fleet(pre_doc, post_doc)
      [] section = "networkmanager"      -> compare_networkmanager(pre_doc, post_doc)
      [] section = "wireguard"           -> compare_wireguard(pre_doc, post_doc)
      [] section = "hardware_throttling" -> compare_hardware_throttling(pre_doc, post_doc)
      [] section = "critical_services"   -> compare_critical_services(pre_doc, post_doc)
      [] section = "config_checksums"    -> compare_config_checksums(pre_doc, post_doc)
      [] section = "memory_detail"       -> compare_memory_detail(pre_doc, post_doc)
      [] section = "cron_jobs"           -> compare_cron_jobs(pre_doc, post_doc)

(* results.append(compare_x(pre, post, verbose)) *)
AppendResult_shared(rs, r) ==
    Append(rs, [r EXCEPT !.changes = (IF rs = <<>> THEN <<>> ELSE rs[Len(rs)].changes) \o @])

AppendResult(rs, r) == Append(rs, r)

(* load_snapshot: the parsed dict, or None after an OSError or a            *)
(* JSONDecodeError                                                          *)
load_snapshot(file) ==
    IF file.state = "ok"
    THEN [loaded |-> TRUE, doc |-> file.doc]
    ELSE [loaded |-> FALSE, doc |-> EmptyDict]

(* "not snapshot": None and the empty dict are both falsy *)
Falsy(snapshot) == ~snapshot.loaded \/ snapshot.doc = EmptyDict

-----------------------------------------------------------------------------
(* Input documents.  Each family varies the keys one comparator reads and   *)
(* leaves the rest of the document as in Base.                              *)

MaxList == 2

Opt(k, Vals) == {EmptyDict} \cup {k :> v : v \in Vals}

SeqsUpTo(S, n) == UNION {[1..m -> S] : m \in 0..n}

DiskValues == {50, 60, 61, 90, 91}

TempValues == {0, 80, 81}

SystemPre ==
    {a @@ b : a \in Opt("kernel", {"k1", "k2"}), b \in Opt("disk_usage_percent", DiskValues)}

SystemPost ==
    {a @@ b @@ c : a \in Opt("kernel", {"k1", "k2"}),
                   b \in Opt("disk_usage_percent", DiskValues),
                   c \in Opt("cpu_temp", TempValues)}

CustomValues == {EmptyDict} \cup {"cpu_temp_celsius" :> t : t \in {80, 81}}

ServicesValues ==
    {a @@ b : a \in Opt("running", {sorted(S) : S \in SUBSET {"A", "B", "C", "D"}}),
              b \in Opt("failed", {sorted(S) : S \in SUBSET {Bullet, "A"}})}

ContainerRecords ==
    {[name |-> "web", state |-> "running"], [name |-> "web", state |-> "exited"],
     [name |-> "db", state |-> "running"], [name |-> "web"], [state |-> "running"]}

DockerValues == Opt("containers", SeqsUpTo(ContainerRecords, MaxList))

Addr(family, local) == [family |-> family, local |-> local]

Iface(ifname, operstate, addr_info, address) ==
    [ifname |-> ifname, operstate |-> operstate, addr_info |-> addr_info,
     address |-> address]

Eth0 == Iface("eth0", "UP", <<Addr("inet", "10.0.0.1")>>, "aa:01")

Wlan0 == Iface("wlan0", "UP", <<Addr("inet6", "fe80::1"), Addr("inet", "10.0.1.1")>>, "aa:02")

InterfacesPre == {Eth0, Wlan0, [ifname |-> "eth0"], [operstate |-> "UP"]}

InterfacesPost ==
    InterfacesPre
    \cup {[Eth0 EXCEPT !.operstate = "DOWN"],
          [Eth0 EXCEPT !.addr_info = <<Addr("inet", "10.0.0.2")>>],
          [Eth0 EXCEPT !.address = "bb:01"],
          [Wlan0 EXCEPT !.addr_info = <<Addr("inet6", "fe80::2"), Addr("inet", "10.0.1.1")>>]}

NetworkPre ==
    {a @@ b : a \in Opt("interfaces", SeqsUpTo(InterfacesPre, MaxList)),
              b \in Opt("default_gateway", {"gw1"})}

NetworkPost ==
    {a @@ b : a \in Opt("interfaces", SeqsUpTo(InterfacesPost, MaxList)),
              b \in Opt("default_gateway", {"gw1", "gw2"})}

UsbDescriptors ==
    {RTL8153, <<"x">> \o RTL8156, <<"H", "u", "b">>, <<"R", "T", "L", "8", "1", "5">>}

UsbValues == {sorted_str(S) : S \in SUBSET UsbDescriptors}

RouteGuardianValues ==
    {a @@ b @@ c @@ d : a \in Opt("service_active", BOOLEAN),
                        b \in Opt("active_gateway", {"dsl", "lte"}),
                        c \in Opt("dsl_route_present", BOOLEAN),
                        d \in Opt("lte_route_present", BOOLEAN)}

FleetDeviceValues ==
    {[reachable |-> TRUE, ip |-> "10.0.2.1"], [reachable |-> FALSE, ip |-> "10.0.2.1"],
     [reachable |-> TRUE], EmptyDict}

FleetValues ==
    {a @@ b : a \in Opt("watchdog", FleetDeviceValues),
              b \in Opt("gpio_bathroom", FleetDeviceValues)}

ConnectionRecords ==
    {[name |-> "eth0", state |-> "activated"], [name |-> "lte", state |-> "activated"],
     [state |-> "activated"]}

NetworkManagerValues == Opt("active_connections", SeqsUpTo(ConnectionRecords, MaxList))

WireguardValues ==
    {a @@ b : a \in Opt("interface_active", BOOLEAN), b \in Opt("peers_count", {0, 2, 3})}

ThrottleValues ==
    {a @@ b @@ c : a \in Opt("under_voltage", BOOLEAN),
                   b \in Opt("currently_throttled", BOOLEAN),
                   c \in Opt("soft_temp_limit", {TRUE})}

HardwareValues == Opt("throttle_events", ThrottleValues)

CriticalData ==
    {a @@ b : a \in Opt("active", {"active", "failed"}), b \in Opt("restarts", {1, 2})}

CriticalDataB == {[active |-> "active", restarts |-> 1], [active |-> "inactive"]}

(* item lists with distinct keys, at most MaxList items *)
ItemLists(Keys, vals(_)) ==
    {items \in SeqsUpTo(UNION {{<<k, v>> : v \in vals(k)} : k \in Keys}, MaxList) :
        \A i, j \in DOMAIN items : i # j => items[i][1] # items[j][1]}

CriticalValues ==
    ItemLists({"A", "B"}, LAMBDA k : IF k = "A" THEN CriticalData ELSE CriticalDataB)

ChecksumValues == ItemLists({"f1", "f2"}, LAMBDA k : {"h1", "h2", "missing"})

MemoryValues == Opt("swap_usage_percent", {0, 1, 50, 51})

CronValues == {sorted(S) : S \in SUBSET {"backup", "rotate"}}

Chars3(a, b, c) == <<a, b, c>>

DurationValues ==
    {JInt(n) : n \in {-1, 0, 300, 301}}
    \cup {JFloat(n) : n \in {2999, 3005, 3010}}
    \cup {JStr(s) :
             s \in {Unknown.s, <<>>, Chars3("a", "b", "c"), Chars3("3", "0", "1"),
                    Chars3("3", "0", "a"), <<" ">> \o Chars3("3", "0", "0") \o <<" ">>,
                    Chars3("-", "5", "0")}}
    \cup {JNull, JList}

BootInfoValues ==
    {a @@ b @@ c : a \in Opt("available", BOOLEAN),
                   b \in Opt("phases_completed", {0, 12, 13, 14}),
                   c \in Opt("boot_duration_seconds", DurationValues)}

TypeValues == {"pre-reboot", "post-reboot"}

(* the keys a comparator reads *)
KeysOf(section) ==
    CASE section = "system"              -> {"system", "custom"}
      [] section = "hardware_throttling" -> {"hardware"}
      [] section = "boot_info"           -> {"boot_info", "type"}
      [] OTHER                           -> {section}

(* the values those keys take in the pre document, as partial documents *)
PreFragments(section) ==
    CASE section = "system"              -> Opt("system", SystemPre)
      [] section = "services"            -> Opt("services", ServicesValues)
      [] section = "docker"              -> Opt("docker", DockerValues)
      [] section = "network"             -> Opt("network", NetworkPre)
      [] section = "usb_devices"         -> Opt("usb_devices", UsbValues)
      [] section = "route_guardian"      -> Opt("route_guardian", RouteGuardianValues)
      [] section = "pi_zero_fleet"       -> Opt("pi_zero_fleet", FleetValues)
      [] section = "networkmanager"      -> Opt("networkmanager", NetworkManagerValues)
      [] section = "wireguard"           -> Opt("wireguard", WireguardValues)
      [] section = "hardware_throttling" -> Opt("hardware", HardwareValues)
      [] section = "critical_services"   -> Opt("critical_services", CriticalValues)
      [] section = "config_checksums"    -> Opt("config_checksums", ChecksumValues)
      [] section = "memory_detail"       -> Opt("memory_detail", MemoryValues)
      [] section = "cron_jobs"           -> Opt("cron_jobs", CronValues)
      [] section = "boot_info"           -> {EmptyDict}

(* and in the post document *)
PostFragments(section) ==
    CASE section = "system"  ->
            {a @@ b : a \in Opt("system", SystemPost), b \in Opt("custom", CustomValues)}
      [] section = "network" -> Opt("network", NetworkPost)
      [] section = "boot_info" ->
            {a @@ b : a \in Opt("boot_info", BootInfoValues), b \in Opt("type", TypeValues)}
      [] OTHER -> PreFragments(section)

(* a healthy post-reboot document *)
Base ==
    [timestamp |-> "20260101-031500",
     type |-> "post-reboot",
     system |-> [kernel |-> "k1", disk_usage_percent |-> 50, cpu_temp |-> 55],
     services |-> [running |-> <<"A", "B">>, failed |-> <<Bullet>>],
     docker |-> [containers |-> <<[name |-> "web", state |-> "running"]>>],
     network |-> [interfaces |-> <<Eth0, Wlan0>>, default_gateway |-> "gw1"],
     usb_devices |-> <<<<"H", "u", "b">>, RTL8153>>,
     route_guardian |-> [service_active |-> TRUE, active_gateway |-> "dsl",
                         dsl_route_present |-> TRUE, lte_route_present |-> TRUE],
     pi_zero_fleet |-> [watchdog |-> [reachable |-> TRUE, ip |-> "10.0.2.1"]],
     networkmanager |-> [active_connections |-> <<[name |-> "eth0", state |-> "activated"]>>],
     wireguard |-> [interface_active |-> TRUE, peers_count |-> 2],
     hardware |-> [throttle_events |-> [under_voltage |-> FALSE]],
     critical_services |-> <<<<"A", [active |-> "active", restarts |-> 1]>>>>,
     config_checksums |-> <<<<"f1", "h1">>>>,
     memory_detail |-> [swap_usage_percent |-> 0],
     cron_jobs |-> <<"backup">>,
     boot_info |-> [available |-> TRUE, phases_completed |-> 13,
                    boot_duration_seconds |-> JInt(42)]]

(* the matching pre-reboot document *)
BasePre ==
    [k \in DOMAIN Base \ {"boot_info"} |->
        IF k = "type" THEN "pre-reboot"
        ELSE IF k = "timestamp" THEN "20260101-030000"
        ELSE Base[k]]

(* base with the keys of one comparator replaced by a fragment *)
Doc(section, fragment, base) ==
    fragment @@ [k \in DOMAIN base \ KeysOf(section) |-> base[k]]

AllSections == Sections \cup {"boot_info"}

(* the pairs on which one comparator is called: every pre value against     *)
(* every post value, and every post value against a copy of itself          *)
FragmentPairs(section) ==
    (PreFragments(section) \X PostFragments(section))
    \cup {<<g, g>> : g \in PostFragments(section)}

(* one unhealthy value per section, for documents with several findings *)
Degraded ==
    [system |-> [kernel |-> "k2", disk_usage_percent |-> 95, cpu_temp |-> 85],
     services |-> [running |-> <<"B", "C">>, failed |-> <<Bullet, "B">>],
     docker |-> [containers |-> <<[name |-> "web", state |-> "exited"]>>],
     network |-> [interfaces |-> <<[Eth0 EXCEPT !.operstate = "DOWN"], Wlan0>>,
                  default_gateway |-> "gw1"],
     usb_devices |-> <<<<"H", "u", "b">>>>,
     route_guardian |-> [service_active |-> TRUE, active_gateway |-> "dsl",
                         dsl_route_present |-> TRUE, lte_route_present |-> FALSE],
     pi_zero_fleet |-> [watchdog |-> [reachable |-> FALSE, ip |-> "10.0.2.1"]],
     networkmanager |-> [active_connections |->
                            <<[name |-> "eth0", state |-> "activated"],
                              [name |-> "lte", state |-> "activated"]>>],
     wireguard |-> [interface_active |-> TRUE, peers_count |-> 3],
     hardware |-> [throttle_events |-> [under_voltage |-> TRUE]],
     critical_services |-> <<<<"A", [active |-> "failed", restarts |-> 2]>>>>,
     config_checksums |-> <<<<"f1", "h2">>>>,
     memory_detail |-> [swap_usage_percent |-> 51],
     cron_jobs |-> <<"backup", "rotate">>,
     boot_info |-> [available |-> TRUE, phases_completed |-> 12,
                    boot_duration_seconds |-> JInt(301)]]

MixedPost(S) == [k \in DOMAIN Base |-> IF k \in S THEN Degraded[k] ELSE Base[k]]

MixedPosts == {MixedPost(S) : S \in {T \in SUBSET DOMAIN Degraded : Cardinality(T) <= 2}}

(* healthy post documents with every value of the keys boot validation reads *)
BootPosts == {Doc("boot_info", g, Base) : g \in PostFragments("boot_info")}

(* the documents of a run of main *)
RunPairs ==
    UNION {{<<BasePre, Doc(s, g, Base)>> : g \in PostFragments(s)} : s \in AllSections}
    \cup UNION {{<<Doc(s, f, BasePre), Base>> : f \in PreFragments(s)} : s \in Sections}
    \cup {<<BasePre, p>> : p \in MixedPosts}

(* small documents, used with the runs that fail before the comparison *)
SmallDocs == {EmptyDict, [timestamp |-> "20260101-031500"], BasePre, Base, MixedPost({"system"})}

FileStates == {"ok", "oserror", "badjson"}

File(state, doc) == [state |-> state, doc |-> IF state = "ok" THEN doc ELSE EmptyDict]

NotLoaded == [loaded |-> FALSE, doc |-> EmptyDict]

(* the hash seed matters only where a set of strings is iterated *)
SeedsFor(pre_doc, post_doc) ==
    IF Get(pre_doc, "usb_devices", <<>>) = Get(post_doc, "usb_devices", <<>>)
    THEN {0}
    ELSE {0, 1}

Swap(seq, i, j) ==
    [k \in DOMAIN seq |-> IF k = i THEN seq[j] ELSE IF k = j THEN seq[i] ELSE seq[k]]

Rotate(seq, n) == [k \in DOMAIN seq |-> seq[((k + n - 1) % Len(seq)) + 1]]

(* schedules of the fourteen comparators other than the one of the source *)
OtherOrders ==
    {Reverse(SourceOrder)}
    \cup {Swap(SourceOrder, i, i + 1) : i \in 1..(Len(SourceOrder) - 1)}
    \cup {Rotate(SourceOrder, n) : n \in 1..(Len(SourceOrder) - 1)}

-----------------------------------------------------------------------------
(* Initial states *)

InitLocals ==
    /\ pre = NotLoaded
    /\ post = NotLoaded
    /\ results = <<>>
    /\ stdout = <<>>
    /\ stderr = <<>>
    /\ report = <<>>
    /\ summary = <<>>
    /\ total_problems = -1
    /\ exit_code = -1

PlainArgs(json) == [auto_latest |-> FALSE, npos |-> 2, json |-> json]

BothFound == [has_pre |-> TRUE, has_post |-> TRUE]

(* any command line, directory and file state, on small documents *)
AnyInvocation ==
    /\ argv \in [auto_latest : BOOLEAN, npos : 0..2, json : BOOLEAN]
    /\ dir \in [has_pre : BOOLEAN, has_post : BOOLEAN]
    /\ pre_file \in {File(s, d) : s \in FileStates, d \in SmallDocs}
    /\ post_file \in {File(s, d) : s \in FileStates, d \in SmallDocs}

(* two readable files given as arguments *)
PlainInvocation(pairs) ==
    /\ argv \in {PlainArgs(j) : j \in BOOLEAN}
    /\ dir = BothFound
    /\ \E pr \in pairs :
          /\ pre_file = File("ok", pr[1])
          /\ post_file = File("ok", pr[2])

(* a run of main(): any invocation on small documents, and two readable     *)
(* files given as arguments on all the others                               *)
Init ==
    /\ focus = "main"
    /\ pc = "start"
    /\ order = SourceOrder
    /\ PlainInvocation(RunPairs) \/ AnyInvocation
    /\ hash_seed \in SeedsFor(pre_file.doc, post_file.doc)
    /\ InitLocals

(* the same run with the comparators scheduled in another order *)
InitAnyOrder ==
    /\ focus = "main"
    /\ pc = "start"
    /\ \/ /\ order \in OtherOrders \cup {SourceOrder}
          /\ PlainInvocation({<<BasePre, p>> : p \in MixedPosts})
       \/ /\ order \in {SourceOrder, Reverse(SourceOrder)}
          /\ PlainInvocation({<<BasePre, p>> : p \in BootPosts}) \/ AnyInvocation
    /\ hash_seed \in SeedsFor(pre_file.doc, post_file.doc)
    /\ InitLocals

(* a direct call of one comparator on two loaded documents *)
InitCall ==
    /\ focus \in AllSections
    /\ pc = "call"
    /\ order = SourceOrder
    /\ argv = PlainArgs(FALSE)
    /\ dir = BothFound
    /\ \E fg \in FragmentPairs(focus) :
          /\ pre_file = File("ok", Doc(focus, fg[1], Base))
          /\ post_file = File("ok", Doc(focus, fg[2], Base))
    /\ pre = load_snapshot(pre_file)
    /\ post = load_snapshot(post_file)
    /\ hash_seed \in SeedsFor(pre_file.doc, post_file.doc)
    /\ results = <<>>
    /\ stdout = <<>>
    /\ stderr = <<>>
    /\ report = <<>>
    /\ summary = <<>>
    /\ total_problems = -1
    /\ exit_code = -1

-----------------------------------------------------------------------------
(* main() *)

Inputs == <<argv, dir, pre_file, post_file, order, hash_seed, focus>>

(* print to the real stdout; nothing is printed there in --json mode *)
Narrate(tag) == IF argv.json THEN stdout ELSE Append(stdout, tag)

AutoMode == argv.auto_latest \/ argv.npos = 0

(* find_latest_snapshots found both files *)
FindLatestFound ==
    /\ pc = "start"
    /\ AutoMode
    /\ dir.has_pre /\ dir.has_post
    /\ stdout' = Narrate("header")
    /\ pc' = "load_pre"
    /\ UNCHANGED <<Inputs, pre, post, results, stderr, report, summary,
                   total_problems, exit_code>>

(* find_latest_snapshots missed one: return 2 *)
FindLatestMissing ==
    /\ pc = "start"
    /\ AutoMode
    /\ ~(dir.has_pre /\ dir.has_post)
    /\ stderr' = Append(stderr, "Could not find pre/post reboot snapshots")
    /\ exit_code' = UsageStatus
    /\ pc' = "done"
    /\ UNCHANGED <<Inputs, pre, post, results, stdout, report, summary, total_problems>>

(* both files given on the command line *)
UseArguments ==
    /\ pc = "start"
    /\ ~AutoMode
    /\ argv.npos = 2
    /\ stdout' = Narrate("header")
    /\ pc' = "load_pre"
    /\ UNCHANGED <<Inputs, pre, post, results, stderr, report, summary,
                   total_problems, exit_code>>

(* only one file given: print_help, return 2 *)
UsageError ==
    /\ pc = "start"
    /\ ~AutoMode
    /\ argv.npos # 2
    /\ stdout' = Append(stdout, "help")
    /\ exit_code' = UsageStatus
    /\ pc' = "done"
    /\ UNCHANGED <<Inputs, pre, post, results, stderr, report, summary, total_problems>>

LoadPre ==
    /\ pc = "load_pre"
    /\ pre' = load_snapshot(pre_file)
    /\ stderr' = IF pre_file.state = "ok" THEN stderr ELSE Append(stderr, "Error loading pre")
    /\ pc' = "load_post"
    /\ UNCHANGED <<Inputs, post, results, stdout, report, summary, total_problems, exit_code>>

LoadPost ==
    /\ pc = "load_post"
    /\ post' = load_snapshot(post_file)
    /\ stderr' = IF post_file.state = "ok" THEN stderr ELSE Append(stderr, "Error loading post")
    /\ pc' = "check"
    /\ UNCHANGED <<Inputs, pre, results, stdout, report, summary, total_problems, exit_code>>

LoadRejected_both(pre_s, post_s) == Falsy(pre_s) /\ Falsy(post_s)

(* the test "not pre or not post" *)
LoadRejected(pre_s, post_s) == Falsy(pre_s) \/ Falsy(post_s)

(* if not pre or not post: return 1 *)
LoadFailed ==
    /\ pc = "check"
    /\ LoadRejected(pre, post)
    /\ stderr' = Append(stderr, "Could not load snapshots")
    /\ exit_code' = LoadFailureStatus
    /\ pc' = "done"
    /\ UNCHANGED <<Inputs, pre, post, results, stdout, report, summary, total_problems>>

LoadSucceeded ==
    /\ pc = "check"
    /\ ~LoadRejected(pre, post)
    /\ pc' = "compare"
    /\ UNCHANGED <<Inputs, pre, post, results, stdout, stderr, report, summary,
                   total_problems, exit_code>>

(* the next comparator of the schedule runs and its result is appended *)
RunComparator(section) ==
    /\ pc = "compare"
    /\ Len(results) < Len(order)
    /\ order[Len(results) + 1] = section
    /\ results' = AppendResult(results, Compare(section, pre.doc, post.doc, hash_seed))
    /\ stdout' = Narrate(section)
    /\ pc' = IF Len(results) + 1 = Len(order) THEN "boot" ELSE "compare"
    /\ UNCHANGED <<Inputs, pre, post, stderr, report, summary, total_problems, exit_code>>

CompareSystem == RunComparator("system")

CompareServices == RunComparator("services")

CompareDocker == RunComparator("docker")

CompareNetwork == RunComparator("network")

CompareUsb == RunComparator("usb_devices")

CompareRouteGuardian == RunComparator("route_guardian")

ComparePiZeroFleet == RunComparator("pi_zero_fleet")

CompareNetworkManager == RunComparator("networkmanager")

CompareWireguard == RunComparator("wireguard")

CompareHardwareThrottling == RunComparator("hardware_throttling")

CompareCriticalServices == RunComparator("critical_services")

CompareConfigChecksums == RunComparator("config_checksums")

CompareMemoryDetail == RunComparator("memory_detail")

CompareCronJobs == RunComparator("cron_jobs")

IsPostReboot_notPre(post_doc) == Get(post_doc, "type", None) # "pre-reboot"

IsPostReboot(post_doc) == Get(post_doc, "type", None) = "post-reboot"

ValidateBoot ==
    /\ pc = "boot"
    /\ IsPostReboot(post.doc)
    /\ ~validate_boot_info_raises(post.doc)
    /\ results' = AppendResult(results, validate_boot_info(post.doc))
    /\ stdout' = Narrate("boot_info")
    /\ pc' = "output"
    /\ UNCHANGED <<Inputs, pre, post, stderr, report, summary, total_problems, exit_code>>

(* an exception leaves validate_boot_info and main: traceback, status 1 *)
ValidateBootRaises ==
    /\ pc = "boot"
    /\ IsPostReboot(post.doc)
    /\ validate_boot_info_raises(post.doc)
    /\ stdout' = Narrate("boot_info")
    /\ stderr' = Append(stderr, "Traceback")
    /\ exit_code' = 1
    /\ pc' = "crashed"
    /\ UNCHANGED <<Inputs, pre, post, results, report, summary, total_problems>>

SkipBoot ==
    /\ pc = "boot"
    /\ ~IsPostReboot(post.doc)
    /\ pc' = "output"
    /\ UNCHANGED <<Inputs, pre, post, results, stdout, stderr, report, summary,
                   total_problems, exit_code>>

EmitJson ==
    /\ pc = "output"
    /\ argv.json
    /\ report' = <<generate_json_output(results, pre.doc, post.doc)>>
    /\ stdout' = Append(stdout, "json")
    /\ pc' = "exit"
    /\ UNCHANGED <<Inputs, pre, post, results, stderr, summary, total_problems, exit_code>>

PrintSummary ==
    /\ pc = "output"
    /\ ~argv.json
    /\ summary' = <<print_summary(results, pre.doc, post.doc)>>
    /\ stdout' = Append(stdout, "summary")
    /\ pc' = "exit"
    /\ UNCHANGED <<Inputs, pre, post, results, stderr, report, total_problems, exit_code>>

Exit ==
    /\ pc = "exit"
    /\ total_problems' = SumProblems(results)
    /\ exit_code' = ExitStatus(SumProblems(results))
    /\ pc' = "done"
    /\ UNCHANGED <<Inputs, pre, post, results, stdout, stderr, report, summary>>

Next ==
    \/ FindLatestFound
    \/ FindLatestMissing
    \/ UseArguments
    \/ UsageError
    \/ LoadPre
    \/ LoadPost
    \/ LoadFailed
    \/ LoadSucceeded
    \/ CompareSystem
    \/ CompareServices
    \/ CompareDocker
    \/ CompareNetwork
    \/ CompareUsb
    \/ CompareRouteGuardian
    \/ ComparePiZeroFleet
    \/ CompareNetworkManager
    \/ CompareWireguard
    \/ CompareHardwareThrottling
    \/ CompareCriticalServices
    \/ CompareConfigChecksums
    \/ CompareMemoryDetail
    \/ CompareCronJobs
    \/ ValidateBoot
    \/ ValidateBootRaises
    \/ SkipBoot
    \/ EmitJson
    \/ PrintSummary
    \/ Exit

Spec == Init /\ [][Next]_vars

SpecAnyOrder == InitAnyOrder /\ [][Next]_vars

-----------------------------------------------------------------------------
(* Direct calls of the comparators *)

Call(section) ==
    /\ pc = "call"
    /\ focus = section
    /\ results' = <<Compare(section, pre.doc, post.doc, hash_seed)>>
    /\ pc' = "returned"
    /\ UNCHANGED <<Inputs, pre, post, stdout, stderr, report, summary,
                   total_problems, exit_code>>

CallSystem == Call("system")

CallServices == Call("services")

CallDocker == Call("docker")

CallNetwork == Call("network")

CallUsb == Call("usb_devices")

CallRouteGuardian == Call("route_guardian")

CallPiZeroFleet == Call("pi_zero_fleet")

CallNetworkManager == Call("networkmanager")

CallWireguard == Call("wireguard")

CallHardwareThrottling == Call("hardware_throttling")

CallCriticalServices == Call("critical_services")

CallConfigChecksums == Call("config_checksums")

CallMemoryDetail == Call("memory_detail")

CallCronJobs == Call("cron_jobs")

CallBootInfo ==
    /\ pc = "call"
    /\ focus = "boot_info"
    /\ ~validate_boot_info_raises(post.doc)
    /\ results' = <<validate_boot_info(post.doc)>>
    /\ pc' = "returned"
    /\ UNCHANGED <<Inputs, pre, post, stdout, stderr, report, summary,
                   total_problems, exit_code>>

CallBootInfoRaises ==
    /\ pc = "call"
    /\ focus = "boot_info"
    /\ validate_boot_info_raises(post.doc)
    /\ pc' = "raised"
    /\ UNCHANGED <<Inputs, pre, post, results, stdout, stderr, report, summary,
                   total_problems, exit_code>>

NextCall ==
    \/ CallSystem
    \/ CallServices
    \/ CallDocker
    \/ CallNetwork
    \/ CallUsb
    \/ CallRouteGuardian
    \/ CallPiZeroFleet
    \/ CallNetworkManager
    \/ CallWireguard
    \/ CallHardwareThrottling
    \/ CallCriticalServices
    \/ CallConfigChecksums
    \/ CallMemoryDetail
    \/ CallCronJobs
    \/ CallBootInfo
    \/ CallBootInfoRaises

SpecCall == InitCall /\ [][NextCall]_vars

TypeOK ==
    /\ pc \in {"start", "load_pre", "load_post", "check", "compare", "boot", "output",
               "exit", "done", "crashed", "call", "returned", "raised"}
    /\ exit_code \in {-1, 0, 1, 2}
    /\ Len(results) <= Len(SourceOrder) + 1
    /\ \A i \in DOMAIN results : results[i].problems >= 0 /\ results[i].warnings >= 0

-----------------------------------------------------------------------------
(* Properties *)

Returned(section) == pc = "returned" /\ focus = section

Identical == pre.doc = post.doc

(* the comparators whose every check relates the post value to the pre value *)
RelativeSections ==
    {"services", "docker", "network", "usb_devices", "route_guardian", "pi_zero_fleet",
     "networkmanager", "wireguard", "config_checksums", "cron_jobs"}

(* the findings that depend on the post document alone, read off the document *)
PostOnlyProblems(section, post_doc) ==
    CASE section = "system" ->
            B2N(Get(Get(post_doc, "system", EmptyDict), "disk_usage_percent", 0) > 90)
      [] section = "critical_services" ->
            LET items == Get(post_doc, "critical_services", <<>>)
            IN  Cardinality({i \in DOMAIN items :
                                "active" \notin DOMAIN items[i][2]
                                \/ items[i][2]["active"] # "active"})
      [] OTHER -> 0

PostOnlyWarnings(section, post_doc) ==
    CASE section = "system" ->
            LET sys  == Get(post_doc, "system", EmptyDict)
                cust == Get(post_doc, "custom", EmptyDict)
                temp == IF "cpu_temp" \in DOMAIN sys /\ sys["cpu_temp"] # 0
                        THEN sys["cpu_temp"]
                        ELSE IF "cpu_temp_celsius" \in DOMAIN cust
                             THEN cust["cpu_temp_celsius"]
                             ELSE 0
            IN  B2N(temp > 80)
      [] section = "hardware_throttling" ->
            LET te == Get(Get(post_doc, "hardware", EmptyDict), "throttle_events", EmptyDict)
            IN  Cardinality({f \in DOMAIN te : te[f]})
      [] section = "memory_detail" ->
            B2N(Get(Get(post_doc, "memory_detail", EmptyDict), "swap_usage_percent", 0) > 50)
      [] OTHER -> 0

(* C1, as stated: on two identical documents every pair comparator returns   *)
(* problems = 0 and warnings = 0, whatever the sections hold.                *)
C1_IdenticalAlwaysClean ==
    (pc = "returned" /\ focus \in Sections /\ Identical)
        => results[1].problems = 0 /\ results[1].warnings = 0

(* C1, amended: on two identical documents the ten comparators that only     *)
(* relate post to pre return problems = 0 and warnings = 0; system,          *)
(* hardware_throttling, critical_services and memory_detail return exactly   *)
(* the findings of their checks of the post document alone (disk > 90, CPU   *)
(* temperature > 80, a throttle flag set, a critical service not "active",   *)
(* swap > 50) and nothing else.                                              *)
C1_IdenticalOnlyPostFindings ==
    (pc = "returned" /\ focus \in Sections /\ Identical)
        => /\ results[1].problems = PostOnlyProblems(focus, post.doc)
           /\ results[1].warnings = PostOnlyWarnings(focus, post.doc)
           /\ focus \in RelativeSections
                => results[1].problems = 0 /\ results[1].warnings = 0

(* C1 witness: the system comparator has returned a problem and a warning    *)
(* for a document compared with its own copy.                                *)
C1_Witness ==
    /\ Returned("system")
    /\ Identical
    /\ results[1].problems = 1
    /\ results[1].warnings = 1

(* a sum written independently of the aggregation's own *)
RECURSIVE SumField(_, _)
SumField(rs, f) ==
    IF rs = <<>> THEN 0 ELSE SumField(SubSeq(rs, 1, Len(rs) - 1), f) + rs[Len(rs)][f]

(* the result of a comparator run alone on the two input documents *)
Alone(section) ==
    IF section = "boot_info"
    THEN validate_boot_info(post_file.doc)
    ELSE Compare(section, pre_file.doc, post_file.doc, hash_seed)

(* the Section Results of the run that follows the order of the source *)
SourceOrderResults ==
    [i \in DOMAIN SourceOrder |-> Alone(SourceOrder[i])]
    \o (IF IsPostReboot(post_file.doc) THEN <<Alone("boot_info")>> ELSE <<>>)

Finished == focus = "main" /\ pc = "done" /\ total_problems >= 0

(* C2: total_problems is the sum of the problems fields and total_warnings   *)
(* the sum of the warnings fields of the Section Results of the run, and     *)
(* both are the totals of the run in source order whatever the order in      *)
(* which the comparators were executed.                                      *)
C2_TotalsAreOrderIndependentSums ==
    /\ report # <<>>
        => /\ report[1].total_problems = SumField(report[1].sections, "problems")
           /\ report[1].total_warnings = SumField(report[1].sections, "warnings")
           /\ report[1].sections = results
           /\ report[1].total_problems = SumField(SourceOrderResults, "problems")
           /\ report[1].total_warnings = SumField(SourceOrderResults, "warnings")
    /\ Finished
        => /\ total_problems = SumField(results, "problems")
           /\ total_problems = SumField(SourceOrderResults, "problems")

(* C2 witness: a run in another order than the source's has ended with a     *)
(* report whose total adds up the problems of two sections.                  *)
C2_Witness ==
    /\ Finished
    /\ order # SourceOrder
    /\ report # <<>>
    /\ report[1].total_problems >= 3
    /\ report[1].total_warnings >= 1
    /\ Cardinality({i \in DOMAIN results : results[i].problems > 0}) = 2

(* a run that loaded both documents and ran the fourteen comparators has   *)
(* ended, by the return of main or by an exception that left it            *)
Compared ==
    /\ focus = "main"
    /\ pc \in {"done", "crashed"}
    /\ Len(results) >= Len(SourceOrder)

(* C3, as stated: a run that loaded both documents and ran the comparators   *)
(* exits with 0 exactly when the problems of its Section Results add up to 0 *)
(* and with a non-zero status otherwise, whatever the warnings; the success  *)
(* flag of the report is true exactly in the runs that exit with 0.          *)
C3_ExitStatusFollowsProblems ==
    Compared
        => /\ exit_code = 0 <=> SumField(results, "problems") = 0
           /\ exit_code # 0 <=> SumField(results, "problems") > 0
           /\ report # <<>> => (report[1].success <=> exit_code = 0)

Occurrences(bucket, section) ==
    Cardinality({j \in DOMAIN summary[1][bucket] : summary[1][bucket][j].section = section})

(* C4: in the narrative summary every Section Result is in exactly one of    *)
(* four classes: critical (problems > 0), warning (problems = 0 and          *)
(* warnings > 0), info (both 0, changes non-empty), omitted (both 0, changes *)
(* empty); no section is listed twice and none with a finding or a change is *)
(* left out.                                                                 *)
C4_SummaryBucketsPartition ==
    summary # <<>>
        => /\ \A i \in DOMAIN results :
                LET r  == results[i]
                    nc == Occurrences("critical", r.section)
                    nw == Occurrences("warnings", r.section)
                    ni == Occurrences("info", r.section)
                IN  /\ nc + nw + ni <= 1
                    /\ nc = 1 <=> r.problems > 0
                    /\ nw = 1 <=> r.problems = 0 /\ r.warnings > 0
                    /\ ni = 1 <=> r.problems = 0 /\ r.warnings = 0 /\ r.changes # <<>>
                    /\ nc + nw + ni = 0
                        <=> r.problems = 0 /\ r.warnings = 0 /\ r.changes = <<>>
           /\ \A b \in {"critical", "warnings", "info"} :
                \A j \in DOMAIN summary[1][b] :
                    \E i \in DOMAIN results : results[i].section = summary[1][b][j].section

(* C4 witness: a summary with a critical, a warning and an info section, and *)
(* a section that is omitted.                                                *)
C4_Witness ==
    /\ summary # <<>>
    /\ summary[1].critical # <<>>
    /\ summary[1].warnings # <<>>
    /\ summary[1].info # <<>>
    /\ Len(summary[1].critical) + Len(summary[1].warnings) + Len(summary[1].info)
           < Len(results)

Unloadable == pre_file.state # "ok" \/ post_file.state # "ok"

(* C5: when either document cannot be loaded or parsed the run aborts before *)
(* any comparator executes: no Section Result is produced, and neither the   *)
(* report nor the summary is emitted.                                        *)
C5_LoadFailureAbortsBeforeComparison ==
    (focus = "main" /\ Unloadable)
        => /\ results = <<>>
           /\ report = <<>>
           /\ summary = <<>>
           /\ pc \in {"start", "load_pre", "load_post", "check", "done"}
           /\ \A i \in DOMAIN stdout : stdout[i] \in {"header", "help"}
           /\ pc = "done" => exit_code # 0

(* C5 witness: a run whose post document does not parse has ended after      *)
(* loading, with no result.                                                  *)
C5_Witness ==
    /\ focus = "main"
    /\ pc = "done"
    /\ pre_file.state = "ok"
    /\ pre.loaded
    /\ post_file.state = "badjson"
    /\ ~post.loaded
    /\ results = <<>>
    /\ exit_code = LoadFailureStatus

(* C6, as stated: status 1 is returned only by a run that compared the       *)
(* documents and found total_problems > 0, and a run whose documents are not *)
(* found or not loadable ends with the usage-error status 2.                 *)
C6_StatusOneMeansProblemsFound ==
    (focus = "main" /\ pc = "done")
        => /\ exit_code = 1 => (Len(results) >= Len(SourceOrder) /\ total_problems > 0)
           /\ (results = <<>> /\ Unloadable) => exit_code = UsageStatus

TopKey(section) == IF section = "hardware_throttling" THEN "hardware" ELSE section

AbsentFromBoth ==
    /\ focus # "main"
    /\ pc \in {"returned", "raised"}
    /\ TopKey(focus) \notin DOMAIN pre.doc
    /\ TopKey(focus) \notin DOMAIN post.doc

(* C8, as stated: a comparator whose top-level key is absent from both       *)
(* documents returns, with zero problems and zero warnings.                  *)
C8_AbsentSectionIsClean ==
    AbsentFromBoth
        => /\ pc = "returned"
           /\ results[1].problems = 0
           /\ results[1].warnings = 0

(* C8, amended: a comparator whose top-level key is absent from both         *)
(* documents returns with zero problems, and with zero warnings except that  *)
(* compare_system raises one warning when the post document's                *)
(* custom.cpu_temp_celsius is above 80.                                      *)
C8_AbsentSectionCleanButCustomTemp ==
    AbsentFromBoth
        => /\ pc = "returned"
           /\ results[1].problems = 0
           /\ results[1].warnings =
                 B2N(focus = "system"
                       /\ Get(Get(post.doc, "custom", EmptyDict), "cpu_temp_celsius", 0) > 80)

(* C8 witness: compare_system has returned one warning for a pair of         *)
(* documents that both lack the system key.                                  *)
C8_Witness ==
    /\ AbsentFromBoth
    /\ focus = "system"
    /\ results[1].problems = 0
    /\ results[1].warnings = 1

BootEvaluated ==
    /\ focus = "boot_info"
    /\ pc \in {"returned", "raised"}
    /\ ~BootSkipped(post.doc)

NonNumeric(duration) ==
    \/ duration.t \in {"null", "list"}
    \/ duration.t = "str" /\ ~ParseInt(duration.s).ok

(* C9, as stated: for a boot duration that is not numeric, boot validation   *)
(* returns, with no warning and with the outcome of the phases check.        *)
C9_NonNumericDurationSkipped ==
    (BootEvaluated /\ NonNumeric(BootDuration(post.doc)))
        => /\ pc = "returned"
           /\ results[1].warnings = 0
           /\ results[1].problems = B2N(Get(post.doc["boot_info"], "phases_completed", 0) < 13)

Above300(duration) ==
    \/ duration.t = "int" /\ duration.n > 300
    \/ duration.t = "float" /\ duration.n > 3000
    \/ duration.t = "str" /\ ParseInt(duration.s).ok /\ ParseInt(duration.s).v > 300

(* C10, as stated: when boot validation returns for an available boot-info   *)
(* section, problems is 1 exactly when phases_completed < 13 and warnings is *)
(* 1 exactly when a numeric duration is strictly greater than 300 seconds.   *)
C10_BootThresholds ==
    (BootEvaluated /\ pc = "returned")
        => /\ results[1].problems =
                 B2N(Get(post.doc["boot_info"], "phases_completed", 0) < 13)
           /\ results[1].warnings = B2N(Above300(BootDuration(post.doc)))

(* the boot-info section is absent, or marks itself unavailable *)
BootUnavailable(doc) ==
    \/ "boot_info" \notin DOMAIN doc
    \/ "available" \in DOMAIN doc["boot_info"] /\ doc["boot_info"]["available"] = FALSE

BootResults == {i \in DOMAIN results : results[i].section = "boot_info"}

(* the run is past the comparators and the boot validation *)
PastBoot == pc \in {"output", "exit"} \/ (pc = "done" /\ total_problems >= 0)

(* C11: a run produces a boot-validation Section Result only when the post   *)
(* document's type is "post-reboot"; and when the boot-info section is       *)
(* absent or has available = false, boot validation returns, with zero       *)
(* problems, zero warnings and no changes, whatever phases_completed and     *)
(* boot_duration_seconds are.                                                *)
C11_BootValidationGated ==
    focus = "main"
        => /\ ("type" \notin DOMAIN post_file.doc \/ post_file.doc["type"] # "post-reboot")
                => /\ BootResults = {}
                   /\ pc # "crashed"
                   /\ PastBoot => Len(results) = Len(SourceOrder)
           /\ BootUnavailable(post_file.doc)
                => /\ pc # "crashed"
                   /\ \A i \in BootResults :
                         /\ results[i].problems = 0
                         /\ results[i].warnings = 0
                         /\ results[i].changes = <<>>
           /\ (PastBoot /\ "type" \in DOMAIN post_file.doc
                        /\ post_file.doc["type"] = "post-reboot")
                => Cardinality(BootResults) = 1

(* C11 witness: a post-reboot run has ended whose boot-info section is       *)
(* marked unavailable and holds 12 phases and no usable duration; its boot   *)
(* result is empty.                                                          *)
C11_Witness ==
    /\ focus = "main"
    /\ pc = "done"
    /\ BootResults # {}
    /\ "boot_info" \in DOMAIN post_file.doc
    /\ Get(post_file.doc["boot_info"], "available", TRUE) = FALSE
    /\ Get(post_file.doc["boot_info"], "phases_completed", 13) = 12
    /\ Get(post_file.doc["boot_info"], "boot_duration_seconds", JInt(0)) = JNull
    /\ results[Len(results)] = ComparisonResult("boot_info", 0, 0, <<>>)

(* the disk usage a document reports, 0 when it reports none *)
DiskOf(doc) ==
    IF "system" \in DOMAIN doc /\ "disk_usage_percent" \in DOMAIN doc["system"]
    THEN doc["system"]["disk_usage_percent"]
    ELSE 0

DiskEntries ==
    {i \in DOMAIN results[1].changes :
        results[1].changes[i][1] \in {"Disk space critical",
                                      "Disk usage increased significantly"}}

(* C12: compare_system raises exactly one problem when post disk usage > 90, *)
(* otherwise exactly one warning for the disk when post > pre + 10, and      *)
(* otherwise nothing for the disk; a missing disk usage counts as 0, and the *)
(* disk check never raises both a problem and a warning.                     *)
C12_DiskThresholds ==
    Returned("system")
        => LET pre_disk  == DiskOf(pre.doc)
               post_disk == DiskOf(post.doc)
               hot       == PostOnlyWarnings("system", post.doc)
               disk_warn == results[1].warnings - hot
           IN  /\ results[1].problems = B2N(post_disk > 90)
               /\ disk_warn = B2N(post_disk <= 90 /\ post_disk > pre_disk + 10)
               /\ results[1].problems + disk_warn <= 1
               /\ Cardinality(DiskEntries) = results[1].problems + disk_warn

(* C12 witness: compare_system has returned one warning and no problem for   *)
(* pre = 50, post = 61 and a normal temperature.                             *)
C12_Witness ==
    /\ Returned("system")
    /\ DiskOf(pre.doc) = 50
    /\ DiskOf(post.doc) = 61
    /\ PostOnlyWarnings("system", post.doc) = 0
    /\ results[1].problems = 0
    /\ results[1].warnings = 1

(* the services a document lists under services.<field>, as a set *)
ServicesOf(doc, field) ==
    IF "services" \in DOMAIN doc /\ field \in DOMAIN doc["services"]
    THEN {doc["services"][field][i] : i \in DOMAIN doc["services"][field]}
    ELSE {}

ChangesTagged(tag) ==
    {results[1].changes[i][2] :
        i \in {j \in DOMAIN results[1].changes : results[1].changes[j][1] = tag}}

(* C13: compare_services returns problems = |pre_running \ post_running| +   *)
(* |post_failed \ pre_failed| with the bullet artifact removed from both     *)
(* failed sets, warnings = 0, and one informational change for each service  *)
(* of post_running \ pre_running.                                            *)
C13_ServicesCounts ==
    Returned("services")
        => LET stopped == ServicesOf(pre.doc, "running") \ ServicesOf(post.doc, "running")
               started == ServicesOf(post.doc, "running") \ ServicesOf(pre.doc, "running")
               failed  == (ServicesOf(post.doc, "failed") \ {"\\u25cf"})
                          \ (ServicesOf(pre.doc, "failed") \ {"\\u25cf"})
           IN  /\ results[1].problems = Cardinality(stopped) + Cardinality(failed)
               /\ results[1].warnings = 0
               /\ ChangesTagged("started") = started
               /\ ChangesTagged("stopped") = stopped
               /\ ChangesTagged("failed") = failed
               /\ Len(results[1].changes)
                    = Cardinality(stopped) + Cardinality(started) + Cardinality(failed)

(* C13 witness: pre running {A,B,C}, post running {B,C,D}, a bullet in the   *)
(* post failed list only: one problem, one informational change, no warning. *)
C13_Witness ==
    /\ Returned("services")
    /\ ServicesOf(pre.doc, "running") = {"A", "B", "C"}
    /\ ServicesOf(post.doc, "running") = {"B", "C", "D"}
    /\ ServicesOf(pre.doc, "failed") = {}
    /\ ServicesOf(post.doc, "failed") = {"\\u25cf"}
    /\ results[1] = ComparisonResult("services", 1, 0,
                                     << <<"stopped", "A">>, <<"started", "D">> >>)

(* the USB descriptors a document lists, as a set *)
UsbOf(doc) ==
    IF "usb_devices" \in DOMAIN doc
    THEN {doc["usb_devices"][i] : i \in DOMAIN doc["usb_devices"]}
    ELSE {}

(* the descriptor holds the text RTL8153 or RTL8156 *)
HasChipset(d) ==
    \E i \in 1..Len(d) :
        /\ i + 6 <= Len(d)
        /\ <<d[i], d[i + 1], d[i + 2], d[i + 3], d[i + 4], d[i + 5]>>
               = <<"R", "T", "L", "8", "1", "5">>
        /\ d[i + 6] \in {"3", "6"}

(* C14: compare_usb_devices returns problems = the number of removed devices *)
(* whose descriptor contains RTL8153 or RTL8156, warnings = the number of    *)
(* the other removed devices, and one informational change per added device; *)
(* every removed device is counted exactly once.                             *)
C14_UsbCounts ==
    Returned("usb_devices")
        => LET removed  == UsbOf(pre.doc) \ UsbOf(post.doc)
               added    == UsbOf(post.doc) \ UsbOf(pre.doc)
               adapters == {d \in removed : HasChipset(d)}
           IN  /\ results[1].problems = Cardinality(adapters)
               /\ results[1].warnings = Cardinality(removed \ adapters)
               /\ ChangesTagged("missing") = adapters
               /\ ChangesTagged("removed") = removed \ adapters
               /\ ChangesTagged("added") = added
               /\ Len(results[1].changes) = Cardinality(removed) + Cardinality(added)

(* C14 witness: both adapters and a hub were removed and another device was  *)
(* added, with the removed set iterated in the other order: two problems,    *)
(* one warning, four changes.                                                *)
C14_Witness ==
    /\ Returned("usb_devices")
    /\ hash_seed = 1
    /\ Cardinality(UsbOf(pre.doc) \ UsbOf(post.doc)) = 3
    /\ Cardinality(UsbOf(post.doc) \ UsbOf(pre.doc)) = 1
    /\ results[1].problems = 2
    /\ results[1].warnings = 1
    /\ Len(results[1].changes) = 4

(* the position of a section's comparator in the schedule of the run; boot  *)
(* validation comes after the fourteen pair comparators                      *)
InvocationIndex(schedule, section) ==
    IF section = "boot_info"
    THEN Len(schedule) + 1
    ELSE CHOOSE i \in DOMAIN schedule : schedule[i] = section

Buckets == {"critical", "warnings", "info"}

(* C15: inside each bucket of the summary, a section whose comparator was    *)
(* invoked earlier is displayed earlier.                                     *)
C15_SummaryKeepsInvocationOrder ==
    summary # <<>>
        => \A b \in Buckets :
              \A j, k \in DOMAIN summary[1][b] :
                  j < k => InvocationIndex(order, summary[1][b][j].section)
                             < InvocationIndex(order, summary[1][b][k].section)

(* C15 witness: a summary whose critical bucket shows two sections in the    *)
(* order of the run, which is not their order in the source.                 *)
C15_Witness ==
    /\ summary # <<>>
    /\ order # SourceOrder
    /\ \E j, k \in DOMAIN summary[1].critical :
          /\ j < k
          /\ InvocationIndex(SourceOrder, summary[1].critical[j].section)
               > InvocationIndex(SourceOrder, summary[1].critical[k].section)

(* C16: every Section Result a comparator returns has problems >= 0,        *)
(* warnings >= 0 and at least problems + warnings entries in changes.        *)
C16_ChangesCoverFindings ==
    (pc = "returned" /\ focus \in AllSections)
        => /\ results[1].section = focus
           /\ results[1].problems >= 0
           /\ results[1].warnings >= 0
           /\ Len(results[1].changes) >= results[1].problems + results[1].warnings

(* C16 witness: compare_critical_services has returned problems and warnings *)
(* for two services, with one change for each finding.                       *)
C16_Witness ==
    /\ Returned("critical_services")
    /\ results[1].problems >= 1
    /\ results[1].warnings >= 1
    /\ results[1].problems + results[1].warnings >= 3
    /\ Len(results[1].changes) = results[1].problems + results[1].warnings

(* the swap usage the post document reports, 0 when it reports none *)
SwapOf(doc) ==
    IF "memory_detail" \in DOMAIN doc /\ "swap_usage_percent" \in DOMAIN doc["memory_detail"]
    THEN doc["memory_detail"]["swap_usage_percent"]
    ELSE 0

(* C17, as stated: compare_memory_detail never raises a problem; a post swap *)
(* usage > 50 gives exactly one warning; a non-zero value not above 50 gives *)
(* zero warnings and an informational change; 0 or a missing value gives     *)
(* zero warnings and no change.                                              *)
C17_SwapUsageClasses ==
    Returned("memory_detail")
        => /\ results[1].problems = 0
           /\ SwapOf(post.doc) > 50
                => results[1].warnings = 1
           /\ (SwapOf(post.doc) # 0 /\ SwapOf(post.doc) <= 50)
                => results[1].warnings = 0 /\ Len(results[1].changes) >= 1
           /\ SwapOf(post.doc) = 0
                => results[1].warnings = 0 /\ results[1].changes = <<>>

(* the interface list of a document *)
IfacesOf(doc) ==
    IF "network" \in DOMAIN doc /\ "interfaces" \in DOMAIN doc["network"]
    THEN doc["network"]["interfaces"]
    ELSE <<>>

IfaceNames(doc) ==
    {IfacesOf(doc)[i]["ifname"] :
        i \in {j \in DOMAIN IfacesOf(doc) : "ifname" \in DOMAIN IfacesOf(doc)[j]}}

(* the entry a name stands for: the last one of the list with that name *)
IfaceNamed(doc, name) ==
    LET l   == IfacesOf(doc)
        idx == {i \in DOMAIN l : "ifname" \in DOMAIN l[i] /\ l[i]["ifname"] = name}
    IN  l[CHOOSE i \in idx : \A j \in idx : j <= i]

Ipv4Of(iface) ==
    IF "addr_info" \notin DOMAIN iface THEN {}
    ELSE {IF "local" \in DOMAIN iface["addr_info"][i]
          THEN iface["addr_info"][i]["local"] ELSE "None" :
             i \in {j \in DOMAIN iface["addr_info"] :
                       /\ "family" \in DOMAIN iface["addr_info"][j]
                       /\ iface["addr_info"][j]["family"] = "inet"}}

GatewayOf(doc) ==
    IF "network" \in DOMAIN doc /\ "default_gateway" \in DOMAIN doc["network"]
    THEN doc["network"]["default_gateway"]
    ELSE "none"

(* C18: compare_network_interfaces counts, for each interface name of the    *)
(* pre document, one problem and nothing else when the name is absent from   *)
(* post, and otherwise one warning for a changed operational state, one      *)
(* warning for a changed set of IPv4 addresses and one problem for a changed *)
(* MAC address; a changed default gateway adds one warning; interfaces of    *)
(* the post document alone add nothing.                                      *)
C18_NetworkCounts ==
    Returned("network")
        => LET kept    == IfaceNames(pre.doc) \cap IfaceNames(post.doc)
               missing == IfaceNames(pre.doc) \ IfaceNames(post.doc)
               state   == {n \in kept :
                              Get(IfaceNamed(pre.doc, n), "operstate", "UNKNOWN")
                                # Get(IfaceNamed(post.doc, n), "operstate", "UNKNOWN")}
               ip      == {n \in kept :
                              Ipv4Of(IfaceNamed(pre.doc, n)) # Ipv4Of(IfaceNamed(post.doc, n))}
               mac     == {n \in kept :
                              Get(IfaceNamed(pre.doc, n), "address", "")
                                # Get(IfaceNamed(post.doc, n), "address", "")}
               gateway == B2N(GatewayOf(pre.doc) # GatewayOf(post.doc))
           IN  /\ results[1].problems = Cardinality(missing) + Cardinality(mac)
               /\ results[1].warnings = Cardinality(state) + Cardinality(ip) + gateway
               /\ Len(results[1].changes) = results[1].problems + results[1].warnings

(* C18 witness: one interface went missing, the other changed its MAC        *)
(* address, and the default gateway changed: two problems, one warning.      *)
C18_Witness ==
    /\ Returned("network")
    /\ Cardinality(IfaceNames(pre.doc)) = 2
    /\ Cardinality(IfaceNames(pre.doc) \ IfaceNames(post.doc)) = 1
    /\ GatewayOf(pre.doc) # GatewayOf(post.doc)
    /\ results[1].problems = 2
    /\ results[1].warnings = 1

(* C19, as stated: a run whose two files were read and parsed as JSON        *)
(* objects, an empty object included, executes the fourteen pair comparators *)
(* once each in the fixed order and ends with exit status 0 or 1 according   *)
(* to total_problems.                                                        *)
C19_LoadedRunsCompare ==
    (focus = "main" /\ pc \in {"done", "crashed"} /\ pre.loaded /\ post.loaded)
        => /\ Len(results) >= Len(SourceOrder)
           /\ \A i \in DOMAIN SourceOrder : results[i].section = SourceOrder[i]
           /\ \A i \in DOMAIN results :
                 i > Len(SourceOrder) => results[i].section = "boot_info"
           /\ exit_code = IF SumField(results, "problems") = 0 THEN 0 ELSE 1

====
